---- MODULE Spec2Model ----
(***************************************************************************)
(* A model of distiller/apputils/data_loaders.py: the subset-length        *)
(* arithmetic, the list splitter, the two subset samplers and the loader   *)
(* assembler (load_data / get_data_loaders).                               *)
(*                                                                         *)
(* Conventions.  A Python float ratio is the pair <<num, den>> (den > 0)   *)
(* of an exact rational.  Dataset indices and positions keep Python's      *)
(* 0-based values; sequences are TLA+ sequences, so l[i] of the source is  *)
(* l[i + 1] here.  Python's None is the string "None".                     *)
(***************************************************************************)
EXTENDS Integers, Sequences, FiniteSets, TLC

\* ------------------------------------------------------------------ bounds
MaxLen == 4
MaxDen == 3
MaxSrc == 3
MaxTrain == 3
MaxTest == 1
MaxBatch == 2
NumWorkers == 2

None == "None"

\* --------------------------------------------------------- input domains
\* Ratios around and inside (0, 1]: negative, zero, proper, one, above one.
Ratios == { <<a, b>> : a \in -1 .. (MaxDen + 1), b \in 1 .. MaxDen }
\* validation_split values in [0, 1]
SplitRatios == { r \in Ratios : r[1] >= 0 /\ r[1] <= r[2] }
\* The ratios the sampler and the assembler are driven with.
EffectiveSizes == { <<0, 1>>, <<1, 2>>, <<2, 3>>, <<1, 1>>, <<3, 2>> }
LoaderSizes == { <<1, 2>>, <<1, 1>>, <<3, 2>> }
ValidationSplits == { <<0, 1>>, <<1, 2>>, <<1, 1>> }
DatasetArgs == { "cifar10", "imagenet", "mnist" }

\* ---------------------------------------------------------------- helpers
SeqToSet(s) == { s[i] : i \in 1 .. Len(s) }
IsInjective(s) == \A i, j \in 1 .. Len(s) : s[i] = s[j] => i = j
\* The sequences of k pairwise distinct elements of S: the first k entries
\* of the permutations of S.
InjSeqs(S, k) == { s \in [1 .. k -> S] : IsInjective(s) }
\* The position sequences of every length, tabulated once: Positions(n, k) is
\* the set of the first k entries of the permutations of 0 .. n-1, the
\* values of randperm(n)[:k] and of np.random.permutation(n)[:k].
MaxPos == IF MaxTrain > MaxSrc THEN (IF MaxTrain > MaxTest THEN MaxTrain ELSE MaxTest)
          ELSE (IF MaxSrc > MaxTest THEN MaxSrc ELSE MaxTest)
PositionTable ==
    { << n, k, { s : s \in InjSeqs(0 .. n - 1, k) } >> : n \in 0 .. MaxPos, k \in 0 .. MaxPos }
Positions(n, k) == (CHOOSE t \in PositionTable : t[1] = n /\ t[2] = k)[3]
\* list(range(n))
Range(n) == [i \in 1 .. n |-> i - 1]
\* l[:k] and l[k:]
Take(l, k) == [i \in 1 .. k |-> l[i]]
Drop(l, k) == [i \in 1 .. (Len(l) - k) |-> l[i + k]]
\* The index sequences of length up to n over 0 .. n-1, without repeats.
IndexSeqs(n) == UNION { InjSeqs(0 .. n - 1, k) : k \in 0 .. n }

\* int(np.floor(n * r))
FloorMul(n, r) == (n * r[1]) \div r[2]
CeilDiv(a, b) == (a + b - 1) \div b

DATASETS_NAMES == { "imagenet", "cifar10" }

\* ------------------------------------------------------------- pure code
\* _get_subset_length: the outcome of a call, [raised, value]; value is the
\* returned integer, and 0 when the call raised.
Raise(e) == [raised |-> e, value |-> 0]
Return(v) == [raised |-> None, value |-> v]

\* Variant: the product is rounded up.
get_subset_length_round_up(data_source, effective_size) ==
    IF effective_size[1] <= 0 \/ effective_size[1] > effective_size[2]
    THEN Raise("ValueError")
    ELSE Return(CeilDiv(Len(data_source) * effective_size[1], effective_size[2]))

get_subset_length(data_source, effective_size) ==
    IF effective_size[1] <= 0 \/ effective_size[1] > effective_size[2]
    THEN Raise("ValueError")
    ELSE Return(FloorMul(Len(data_source), effective_size))

\* __split_list: (l[:split_idx], l[split_idx:])

\* Variant: the second slice starts one element early.
split_list_overlap(l, ratio) ==
    LET split_idx == FloorMul(Len(l), ratio)
    IN  << Take(l, split_idx), Drop(l, IF split_idx > 0 THEN split_idx - 1 ELSE 0) >>

\* Variant: the two slices are returned in the other order.
split_list_swapped(l, ratio) ==
    LET split_idx == FloorMul(Len(l), ratio)
    IN  << Drop(l, split_idx), Take(l, split_idx) >>

split_list(l, ratio) ==
    LET split_idx == FloorMul(Len(l), ratio)
    IN  << Take(l, split_idx), Drop(l, split_idx) >>

\* ---------------------------------------------------------------- samplers
\* A sampler object.  kind "switching": SwitchingSubsetRandomSampler, holding
\* data_source and subset_length.  kind "fixed": the
\* torch.utils.data.SubsetRandomSampler built over subset_indices, holding
\* indices.  The fields a kind does not have are empty.
NoSampler == [kind |-> None, data_source |-> <<>>, subset_length |-> 0, indices |-> <<>>]

\* SwitchingSubsetRandomSampler.__init__: the outcome [raised, sampler]
SwitchingSubsetRandomSampler(data_source, effective_size) ==
    LET n == get_subset_length(data_source, effective_size)
    IN  IF n.raised # None
        THEN [raised |-> n.raised, sampler |-> NoSampler]
        ELSE [raised |-> None,
              sampler |-> [kind |-> "switching", data_source |-> data_source,
                           subset_length |-> n.value, indices |-> <<>>]]

\* SwitchingSubsetRandomSampler.__iter__: the enumerations one call can give,
\* each [positions, out]: positions = torch.randperm(len(data_source))
\* [:subset_length], out = (data_source[i] for i in positions).
\* Variant: the permutation is not cut to subset_length.
SwitchingIter_whole_source(s) ==
    { [positions |-> p, out |-> [i \in 1 .. Len(p) |-> s.data_source[p[i] + 1]]] :
        p \in Positions(Len(s.data_source), Len(s.data_source)) }

SwitchingIter(s) ==
    { [positions |-> p, out |-> [i \in 1 .. Len(p) |-> s.data_source[p[i] + 1]]] :
        p \in Positions(Len(s.data_source), s.subset_length) }

\* SubsetRandomSampler.__iter__: (indices[i] for i in randperm(len(indices)))
SubsetRandomIter(s) ==
    { [positions |-> p, out |-> [i \in 1 .. Len(p) |-> s.indices[p[i] + 1]]] :
        p \in Positions(Len(s.indices), Len(s.indices)) }

SamplerIter(s) == IF s.kind = "fixed" THEN SubsetRandomIter(s) ELSE SwitchingIter(s)

\* SwitchingSubsetRandomSampler.__len__ / SubsetRandomSampler.__len__
SamplerLen(s) == IF s.kind = "fixed" THEN Len(s.indices) ELSE s.subset_length

\* _get_sampler: the set of outcomes [raised, sampler] a call can have; the
\* fixed sampler's subset is np.random.permutation(len(data_source))
\* [:subset_length].
\* Variant: the fixed branch does not validate effective_size.
get_sampler_fixed_unchecked(data_source, effective_size, fixed_subset) ==
    IF fixed_subset
    THEN LET n == FloorMul(Len(data_source), effective_size)
             k == IF n < 0 THEN 0 ELSE IF n > Len(data_source) THEN Len(data_source) ELSE n
         IN  { [raised |-> None,
                sampler |-> [kind |-> "fixed", data_source |-> <<>>,
                             subset_length |-> 0, indices |-> subset_indices]] :
                 subset_indices \in Positions(Len(data_source), k) }
    ELSE { SwitchingSubsetRandomSampler(data_source, effective_size) }

\* Variant: fixed_subset is ignored.
get_sampler_ignores_fixed(data_source, effective_size, fixed_subset) ==
    { SwitchingSubsetRandomSampler(data_source, effective_size) }

get_sampler(data_source, effective_size, fixed_subset) ==
    IF fixed_subset
    THEN LET subset_length == get_subset_length(data_source, effective_size)
         IN  IF subset_length.raised # None
             THEN { [raised |-> subset_length.raised, sampler |-> NoSampler] }
             ELSE { [raised |-> None,
                     sampler |-> [kind |-> "fixed", data_source |-> <<>>,
                                  subset_length |-> 0, indices |-> subset_indices]] :
                      subset_indices \in
                          Positions(Len(data_source), subset_length.value) }
    ELSE { SwitchingSubsetRandomSampler(data_source, effective_size) }

\* ----------------------------------------------------------------- loaders
\* A torch.utils.data.DataLoader as get_data_loaders builds it.  name is the
\* object's identity (the local it is first bound to).
NoLoader ==
    [name |-> None, dataset |-> None, sampler |-> NoSampler, batch_size |-> 1,
     num_workers |-> 0, worker_init_fn |-> None]

DataLoader(name, dataset, batch_size, sampler, num_workers, worker_init_fn) ==
    [name |-> name, dataset |-> dataset, sampler |-> sampler,
     batch_size |-> batch_size, num_workers |-> num_workers,
     worker_init_fn |-> worker_init_fn]

\* DataLoader.__len__: the number of batches (drop_last is False).
DataLoaderLen(ld) == CeilDiv(SamplerLen(ld.sampler), ld.batch_size)

\* The truth value Python gives `valid_loader` in `valid_loader or
\* test_loader`: None is false, and an object that defines __len__ is
\* false when its length is 0.
Truthy(ld) == ld.name # None /\ DataLoaderLen(ld) # 0

\* The lengths of the batches of one pass over a loader whose sampler
\* enumerates n indices: the DataLoader groups them batch_size at a time, and
\* the last batch takes what is left.
BatchLens(n, batch_size) ==
    [j \in 1 .. CeilDiv(n, batch_size) |->
        IF j * batch_size <= n THEN batch_size ELSE n - (j - 1) * batch_size]

\* The parameters of a load_data call.
LoadArgs ==
    [dataset : DatasetArgs,
     num_train : 1 .. MaxTrain,
     num_test : 1 .. MaxTest,
     batch_size : 1 .. MaxBatch,
     workers : { NumWorkers },
     validation_split : ValidationSplits,
     deterministic : BOOLEAN,
     effective_train_size : LoaderSizes,
     effective_valid_size : LoaderSizes,
     effective_test_size : LoaderSizes,
     fixed_subset : BOOLEAN]

\* What a call leaves behind: whether it raised, the process-wide seeding,
\* the objects it created before it ended, and, when it returned, the two
\* index partitions and the three loaders with the tuple handed back.
Outcome(raised, seeded, created, valid_indices, train_indices, tl, vl, te, ret) ==
    [raised |-> raised, seeded |-> seeded, created |-> created,
     valid_indices |-> valid_indices, train_indices |-> train_indices,
     train_loader |-> tl, valid_loader |-> vl, test_loader |-> te, ret |-> ret]

\* The returned tuple names the loader objects it holds.
NoRet == [train |-> None, valid |-> None, test |-> None]

Failed(e, seeded, created) ==
    Outcome(e, seeded, created, <<>>, <<>>, NoLoader, NoLoader, NoLoader, NoRet)

\* get_data_loaders: the set of outcomes of a call with arguments a.  The
\* shuffle of the index range and the subsets of the fixed samplers are the
\* random choices.  The training set is not empty, so __image_size, which
\* reads train_dataset[0], returns; input_shape plays no further part.
get_data_loaders(a) ==
    LET worker_init_fn ==
            IF a.deterministic THEN "__deterministic_worker_init_fn" ELSE None
        seeded == a.deterministic
        c0 == { "train_dataset", "test_dataset", "indices" }
    IN  UNION { LET parts == split_list(indices, a.validation_split)
                    valid_indices == parts[1]
                    train_indices == parts[2]
                IN  UNION { IF ts.raised # None
                            THEN { Failed(ts.raised, seeded, c0) }
                            ELSE
    LET train_loader == DataLoader("train_loader", "train_dataset", a.batch_size,
                                   ts.sampler, a.workers, worker_init_fn)
        c1 == c0 \cup { "train_sampler", "train_loader" }
        valid_samplers ==
            IF valid_indices # <<>>
            THEN get_sampler(valid_indices, a.effective_valid_size, a.fixed_subset)
            ELSE { [raised |-> None, sampler |-> NoSampler] }
    IN  UNION { IF vs.raised # None
                THEN { Failed(vs.raised, seeded, c1) }
                ELSE
    LET valid_loader ==
            IF valid_indices # <<>>
            THEN DataLoader("valid_loader", "train_dataset", a.batch_size,
                            vs.sampler, a.workers, worker_init_fn)
            ELSE NoLoader
        c2 == IF valid_indices # <<>>
              THEN c1 \cup { "valid_sampler", "valid_loader" } ELSE c1
        test_indices == Range(a.num_test)
    IN  { IF es.raised # None
          THEN Failed(es.raised, seeded, c2 \cup { "test_indices" })
          ELSE
    LET test_loader == DataLoader("test_loader", "test_dataset", a.batch_size,
                                  es.sampler, a.workers, None)
    IN  Outcome(None, seeded,
                c2 \cup { "test_indices", "test_sampler", "test_loader" },
                valid_indices, train_indices,
                train_loader, valid_loader, test_loader,
                [train |-> train_loader.name,
                 valid |-> IF Truthy(valid_loader) THEN valid_loader.name
                                                   ELSE test_loader.name,
                 test |-> test_loader.name])
          : es \in get_sampler(test_indices, a.effective_test_size, a.fixed_subset) }
              : vs \in valid_samplers }
                          : ts \in get_sampler(train_indices, a.effective_train_size,
                                               a.fixed_subset) }
              : indices \in Positions(a.num_train, a.num_train) }

\* load_data: the set of outcomes; provider tells whether datasets_fn ran.
\* Variant: the dataset name is not checked.
load_data_unchecked_name(a) ==
    LET datasets_fn == IF a.dataset = "cifar10" THEN "cifar10_get_datasets"
                                                ELSE "imagenet_get_datasets"
    IN  { [provider |-> datasets_fn, outcome |-> o] : o \in get_data_loaders(a) }

load_data(a) ==
    IF a.dataset \notin DATASETS_NAMES
    THEN { [provider |-> None, outcome |-> Failed("ValueError", FALSE, {})] }
    ELSE LET datasets_fn == IF a.dataset = "cifar10" THEN "cifar10_get_datasets"
                                                     ELSE "imagenet_get_datasets"
         IN  { [provider |-> datasets_fn, outcome |-> o] : o \in get_data_loaders(a) }

\* __deterministic_worker_init_fn(worker_id, seed=0): the worker's random,
\* numpy and torch generators after the hook ran.
DefaultSeed == 0
Unseeded == [seeded |-> FALSE, seed |-> DefaultSeed]
deterministic_worker_init_fn(worker_id, seed) == [seeded |-> TRUE, seed |-> seed]

\* The generator state of each worker of a loader when it produces its first
\* batch: the DataLoader calls worker_init_fn(worker_id), when it has one,
\* as each worker starts.
WorkerStates(ld) ==
    [w \in 0 .. ld.num_workers - 1 |->
        IF ld.worker_init_fn = "__deterministic_worker_init_fn"
        THEN deterministic_worker_init_fn(w, DefaultSeed)
        ELSE Unseeded]

\* ------------------------------------------------------------------ state
VARIABLES
    args,          \* the arguments of the load_data call
    pc,            \* "idle", then "returned" or "raised"
    provider,      \* the dataset provider that was invoked, or None
    outcome,       \* what the load_data call left behind
    obs,           \* the last pass over one of the returned loaders
    sampler_args,  \* data_source, effective_size, fixed_subset of _get_sampler
    sampler_pc,    \* "idle", then "built" or "raised"
    sampler,       \* the sampler _get_sampler returned
    prev_iter,     \* the enumeration before the last one
    last_iter,     \* the last enumeration of the sampler
    epochs,        \* enumerations so far, counted up to 2
    length_call,   \* a call of _get_subset_length and its outcome
    split_call     \* a call of __split_list and its result

vars == << args, pc, provider, outcome, obs, sampler_args, sampler_pc, sampler,
           prev_iter, last_iter, epochs, length_call, split_call >>

main_vars == << args, pc, provider, outcome, obs >>
sampler_vars == << sampler_args, sampler_pc, sampler, prev_iter, last_iter, epochs >>

NoIter == [positions |-> <<>>, out |-> <<>>]
\* What is recorded of a pass: the loader, the dataset indices it served, the
\* length of each batch in turn, and each worker's generator state.
NoObs == [handle |-> None, loader |-> None, served |-> {}, batch_lens |-> <<>>,
          examples |-> 0, workers |-> <<>>]
NoOutcome == Failed(None, FALSE, {})

\* The parts of the state a specification does not drive.
MainUnused ==
    /\ args = [dataset |-> None]
    /\ pc = "unused"
    /\ provider = None
    /\ outcome = NoOutcome
    /\ obs = NoObs
SamplerUnused ==
    /\ sampler_args = [data_source |-> <<>>]
    /\ sampler_pc = "unused"
    /\ sampler = NoSampler
    /\ prev_iter = NoIter
    /\ last_iter = NoIter
    /\ epochs = 0
LengthUnused == length_call = [state |-> "unused"]
SplitUnused == split_call = [state |-> "unused"]

\* ------------------------------------------------- load_data and the loaders
Init ==
    /\ args \in LoadArgs
    /\ pc = "idle"
    /\ provider = None
    /\ outcome = NoOutcome
    /\ obs = NoObs
    /\ SamplerUnused /\ LengthUnused /\ SplitUnused

\* A call of load_data(args), to its return or its exception.
LoadData ==
    /\ pc = "idle"
    /\ \E r \in load_data(args) :
          /\ provider' = r.provider
          /\ outcome' = r.outcome
          /\ pc' = IF r.outcome.raised # None THEN "raised" ELSE "returned"
    /\ UNCHANGED << args, obs, sampler_vars, length_call, split_call >>

\* The records one pass (an epoch) over loader ld, returned as handle h, can
\* leave: the sampler is enumerated, the DataLoader cuts the enumeration into
\* batches, and every worker starts before its first batch.
Passes(h, ld) ==
    { [handle |-> h, loader |-> ld.name,
       served |-> SeqToSet(it.out),
       batch_lens |-> BatchLens(Len(it.out), ld.batch_size),
       examples |-> Len(it.out),
       workers |-> WorkerStates(ld)]
      : it \in SamplerIter(ld.sampler) }

\* The loader object the returned tuple holds as handle h.
Returned(h) == outcome[outcome.ret[h]]

Iterate(h) ==
    /\ pc = "returned"
    /\ \E o \in Passes(h, Returned(h)) : obs' = o
    /\ UNCHANGED << args, pc, provider, outcome, sampler_vars, length_call, split_call >>

Next ==
    \/ LoadData
    \/ \E h \in { "train", "valid", "test" } : Iterate(h)

Spec == Init /\ [][Next]_vars

\* --------------------------------------------------- a sampler on its own
SamplerInit ==
    /\ sampler_args \in [data_source : IndexSeqs(MaxSrc),
                          effective_size : EffectiveSizes,
                          fixed_subset : BOOLEAN]
    /\ sampler_pc = "idle"
    /\ sampler = NoSampler
    /\ prev_iter = NoIter
    /\ last_iter = NoIter
    /\ epochs = 0
    /\ MainUnused /\ LengthUnused /\ SplitUnused

BuildSampler ==
    /\ sampler_pc = "idle"
    /\ \E r \in get_sampler(sampler_args.data_source, sampler_args.effective_size,
                             sampler_args.fixed_subset) :
          /\ sampler' = r.sampler
          /\ sampler_pc' = IF r.raised # None THEN "raised" ELSE "built"
    /\ UNCHANGED << sampler_args, prev_iter, last_iter, epochs, main_vars,
                    length_call, split_call >>

\* iter(sampler), consumed to its end.
IterateSampler ==
    /\ sampler_pc = "built"
    /\ \E it \in SamplerIter(sampler) :
          /\ last_iter' = it
          /\ prev_iter' = last_iter
    /\ epochs' = IF epochs < 2 THEN epochs + 1 ELSE epochs
    /\ UNCHANGED << sampler_args, sampler_pc, sampler, main_vars, length_call, split_call >>

SamplerNext == BuildSampler \/ IterateSampler

SpecSampler == SamplerInit /\ [][SamplerNext]_vars

\* ------------------------------------------------------ _get_subset_length
LengthInit ==
    /\ length_call \in [state : { "pending" }, n : 0 .. MaxLen, effective_size : Ratios,
                         raised : { None }, value : { 0 }]
    /\ MainUnused /\ SamplerUnused /\ SplitUnused

CallSubsetLength ==
    /\ length_call.state = "pending"
    /\ LET r == get_subset_length(Range(length_call.n), length_call.effective_size)
       IN  length_call' = [length_call EXCEPT !.state = "done",
                                              !.raised = r.raised,
                                              !.value = r.value]
    /\ UNCHANGED << main_vars, sampler_vars, split_call >>

LengthNext == CallSubsetLength

SpecSubsetLength == LengthInit /\ [][LengthNext]_vars

\* ------------------------------------------------------------ __split_list
SplitInit ==
    /\ split_call \in [state : { "pending" }, l : IndexSeqs(MaxLen), ratio : SplitRatios,
                        valid : { <<>> }, train : { <<>> }]
    /\ MainUnused /\ SamplerUnused /\ LengthUnused

CallSplitList ==
    /\ split_call.state = "pending"
    /\ LET r == split_list(split_call.l, split_call.ratio)
       IN  split_call' = [split_call EXCEPT !.state = "done",
                                            !.valid = r[1], !.train = r[2]]
    /\ UNCHANGED << main_vars, sampler_vars, length_call >>

SplitNext == CallSplitList

SpecSplitList == SplitInit /\ [][SplitNext]_vars

\* ================================================================= claims
\* What the claims speak of, stated without the operators of the model.
InUnitInterval(r) == r[1] > 0 /\ r[1] <= r[2]
IsFloorOf(k, n, r) == k * r[2] <= n * r[1] /\ n * r[1] < (k + 1) * r[2]
IsCeilOf(c, m, b) == c * b >= m /\ (c - 1) * b < m
Distinct(s) == \A i, j \in DOMAIN s : i # j => s[i] # s[j]

\* C1: __split_list(l, v), v in [0, 1], returns (validation, training) with
\* validation the first floor(v * len(l)) elements of l and training the
\* rest: the two are disjoint, together they are l, and for v = 0 validation
\* is empty and training is l.
C1_SplitPartitions ==
    split_call.state = "done" =>
        LET l == split_call.l
            valid == split_call.valid
            train == split_call.train
        IN  /\ IsFloorOf(Len(valid), Len(l), split_call.ratio)
            /\ valid \o train = l
            /\ SeqToSet(valid) \cap SeqToSet(train) = {}
            /\ SeqToSet(valid) \cup SeqToSet(train) = SeqToSet(l)
            /\ Len(valid) + Len(train) = Len(l)
            /\ (split_call.ratio[1] = 0 => valid = <<>> /\ train = l)

C1_Witness ==
    /\ split_call.state = "done"
    /\ split_call.valid # <<>>
    /\ Len(split_call.train) > Len(split_call.valid)
    /\ (Len(split_call.l) * split_call.ratio[1]) % split_call.ratio[2] # 0

\* C2 as stated: with fixed_subset = True, two successive enumerations of the
\* sampler give the same indices in the same order.
C2_SameOrder ==
    (sampler_pc = "built" /\ sampler_args.fixed_subset /\ epochs >= 2) =>
        last_iter.out = prev_iter.out

\* C2 as amended: with fixed_subset = True, two successive enumerations give
\* the same set of indices, each index once and as many as the subset has;
\* the order is drawn anew each time.
C2_SameSubset ==
    (sampler_pc = "built" /\ sampler_args.fixed_subset /\ epochs >= 2) =>
        /\ SeqToSet(last_iter.out) = SeqToSet(prev_iter.out)
        /\ Len(last_iter.out) = Len(prev_iter.out)
        /\ Distinct(last_iter.out) /\ Distinct(prev_iter.out)
        /\ IsFloorOf(Len(last_iter.out), Len(sampler_args.data_source),
                     sampler_args.effective_size)

C2_Witness ==
    /\ sampler_pc = "built" /\ sampler_args.fixed_subset /\ epochs >= 2
    /\ last_iter.out # prev_iter.out
    /\ SeqToSet(last_iter.out) = SeqToSet(prev_iter.out)
    /\ Len(last_iter.out) < Len(sampler_args.data_source)

\* C3: a SwitchingSubsetRandomSampler with a valid effective_size gives, on
\* every __iter__, exactly subset_length = floor(len(data_source) *
\* effective_size) elements of data_source taken at pairwise distinct
\* positions; __len__ is that subset_length; a subset_length of 0 gives the
\* empty sequence.
C3_SwitchingSubset ==
    (sampler_pc = "built" /\ ~sampler_args.fixed_subset) =>
        LET ds == sampler_args.data_source
        IN  /\ InUnitInterval(sampler_args.effective_size)
            /\ IsFloorOf(SamplerLen(sampler), Len(ds), sampler_args.effective_size)
            /\ \A it \in { prev_iter, last_iter } :
                  (it = last_iter /\ epochs >= 1) \/ (it = prev_iter /\ epochs >= 2) =>
                      /\ Len(it.out) = SamplerLen(sampler)
                      /\ Len(it.positions) = Len(it.out)
                      /\ Distinct(it.positions)
                      /\ \A i \in DOMAIN it.out :
                            /\ it.positions[i] \in 0 .. Len(ds) - 1
                            /\ it.out[i] = ds[it.positions[i] + 1]
                      /\ (SamplerLen(sampler) = 0 => it.out = <<>>)

\* Two successive enumerations of a proper subset that differ in content.
C3_Witness ==
    /\ sampler_pc = "built" /\ ~sampler_args.fixed_subset /\ epochs >= 2
    /\ SamplerLen(sampler) >= 1
    /\ SamplerLen(sampler) < Len(sampler_args.data_source)
    /\ SeqToSet(last_iter.out) # SeqToSet(prev_iter.out)

\* C4: the validation handle get_data_loaders returns is the test loader when
\* the validation index set is empty, and the loader built over the
\* validation indices whenever that set is not empty.
C4_ValidationHandle ==
    pc = "returned" =>
        IF outcome.valid_indices = <<>>
        THEN outcome.ret.valid = "test_loader"
        ELSE outcome.ret.valid = "valid_loader"

\* C5 as stated: an effective size outside (0, 1] makes the call raise
\* ValueError, whatever validation_split and fixed_subset are, and nothing
\* is returned.
C5_AnyBadSizeRaises ==
    (pc # "idle" /\ args.dataset \in { "cifar10", "imagenet" }
        /\ ( \/ ~InUnitInterval(args.effective_train_size)
             \/ ~InUnitInterval(args.effective_valid_size)
             \/ ~InUnitInterval(args.effective_test_size) )) =>
        /\ pc = "raised" /\ outcome.raised = "ValueError"
        /\ outcome.ret = NoRet

\* C5 as amended: effective_train_size or effective_test_size outside (0, 1]
\* always makes the call raise ValueError during construction, and so does
\* effective_valid_size when floor(validation_split * num_train) > 0; no
\* loader is returned and none can be iterated.  With an empty validation set
\* effective_valid_size is not looked at: the call returns if the other two
\* sizes are valid.
C5_BadSizeRaises ==
    (pc # "idle" /\ args.dataset \in { "cifar10", "imagenet" }) =>
        LET valid_used == ~IsFloorOf(0, args.num_train, args.validation_split)
            bad == \/ ~InUnitInterval(args.effective_train_size)
                   \/ ~InUnitInterval(args.effective_test_size)
                   \/ valid_used /\ ~InUnitInterval(args.effective_valid_size)
        IN  IF bad
            THEN /\ pc = "raised" /\ outcome.raised = "ValueError"
                 /\ outcome.ret = NoRet
                 /\ outcome.train_loader = NoLoader
                 /\ outcome.valid_loader = NoLoader
                 /\ outcome.test_loader = NoLoader
                 /\ obs = NoObs
            ELSE pc = "returned" /\ outcome.raised = None

\* A fixed-subset call that built the train loader and then raised on the
\* validation size.
C5_Witness ==
    /\ pc = "raised" /\ args.fixed_subset
    /\ InUnitInterval(args.effective_train_size)
    /\ ~InUnitInterval(args.effective_valid_size)
    /\ "train_loader" \in outcome.created
    /\ "valid_sampler" \notin outcome.created

\* C6: with deterministic = True every worker of every returned loader has
\* run the seeding hook with the fixed seed before its first batch; with
\* deterministic = False no worker has.
C6_WorkersSeeded ==
    obs.handle # None =>
        \A w \in DOMAIN obs.workers :
            /\ obs.workers[w].seeded = args.deterministic
            /\ obs.workers[w].seed = 0

\* C7 as stated: with effective sizes of 1.0 a pass over the train loader
\* serves n - floor(v * n) examples in ceil of that over b batches, and a pass
\* over the validation loader floor(v * n) examples in ceil of that over b
\* batches.
C7_EpochSizes ==
    (obs.handle \in { "train", "valid" }
        /\ args.effective_train_size = <<1, 1>>
        /\ args.effective_valid_size = <<1, 1>>
        /\ args.effective_test_size = <<1, 1>>) =>
        \E k \in 0 .. args.num_train :
            /\ IsFloorOf(k, args.num_train, args.validation_split)
            /\ LET m == IF obs.handle = "train" THEN args.num_train - k ELSE k
               IN  /\ obs.examples = m
                   /\ IsCeilOf(Len(obs.batch_lens), m, args.batch_size)

\* C7 as amended: the same, except that when floor(v * n) = 0 the validation
\* handle is the test loader, and a pass over it serves the len(test_dataset)
\* test examples in ceil of that over b batches.
C7_EpochSizesWithFallback ==
    (obs.handle \in { "train", "valid" }
        /\ args.effective_train_size = <<1, 1>>
        /\ args.effective_valid_size = <<1, 1>>
        /\ args.effective_test_size = <<1, 1>>) =>
        \E k \in 0 .. args.num_train :
            /\ IsFloorOf(k, args.num_train, args.validation_split)
            /\ LET m == IF obs.handle = "train" THEN args.num_train - k
                         ELSE IF k > 0 THEN k ELSE args.num_test
               IN  /\ obs.examples = m
                   /\ Cardinality(obs.served) = m
                   /\ IsCeilOf(Len(obs.batch_lens), m, args.batch_size)
                   /\ \A j \in DOMAIN obs.batch_lens :
                         IF j < Len(obs.batch_lens)
                         THEN obs.batch_lens[j] = args.batch_size
                         ELSE obs.batch_lens[j] \in 1 .. args.batch_size
            /\ (obs.handle = "valid" =>
                   obs.loader = IF k > 0 THEN "valid_loader" ELSE "test_loader")

\* A pass over the loader of a validation set that is not empty, in two or
\* more batches of which the last is short.
C7_Witness ==
    /\ obs.handle = "valid" /\ obs.loader = "valid_loader"
    /\ args.effective_train_size = <<1, 1>>
    /\ args.effective_valid_size = <<1, 1>>
    /\ args.effective_test_size = <<1, 1>>
    /\ Len(obs.batch_lens) >= 2
    /\ obs.batch_lens[Len(obs.batch_lens)] < args.batch_size

\* C8: _get_subset_length on a collection of length n and a ratio r returns
\* floor(n * r), at most n, when 0 < r <= 1, and raises ValueError when
\* r <= 0 or r > 1, changing nothing.
C8_SubsetLength ==
    length_call.state = "done" =>
        LET r == length_call.effective_size
        IN  /\ IF r[1] <= 0 \/ r[1] > r[2]
               THEN length_call.raised = "ValueError"
               ELSE /\ length_call.raised = None
                    /\ IsFloorOf(length_call.value, length_call.n, r)
                    /\ length_call.value \in 0 .. length_call.n
            /\ MainUnused /\ SamplerUnused /\ SplitUnused

C8_Witness ==
    /\ length_call.state = "done" /\ length_call.raised = None
    /\ length_call.value >= 1
    /\ (length_call.n * length_call.effective_size[1]) % length_call.effective_size[2] # 0

\* C9: load_data with a dataset name other than "cifar10" and "imagenet"
\* raises at once: no provider is invoked, no seed is set, and no index
\* list, sampler or loader is created.
C9_UnsupportedDataset ==
    (pc # "idle" /\ args.dataset \notin { "cifar10", "imagenet" }) =>
        /\ pc = "raised" /\ outcome.raised = "ValueError"
        /\ provider = None
        /\ ~outcome.seeded
        /\ outcome.created = {}
        /\ outcome.ret = NoRet
        /\ outcome.train_loader = NoLoader
        /\ outcome.valid_loader = NoLoader
        /\ outcome.test_loader = NoLoader
        /\ obs = NoObs

C9_Witness ==
    /\ pc = "raised" /\ args.dataset = "mnist" /\ args.deterministic
    /\ provider = None

\* C10: whatever fixed_subset is, every index a pass over the train loader
\* serves is one of the training partition, and every index a pass over the
\* validation loader serves is one of the validation partition.
C10_ServedFromPartition ==
    /\ obs.loader = "train_loader" => obs.served \subseteq SeqToSet(outcome.train_indices)
    /\ obs.loader = "valid_loader" => obs.served \subseteq SeqToSet(outcome.valid_indices)

====
